---- MODULE Spec2Model ----
(***************************************************************************)
(* Lemmings custom track format (libdisk/lemmings.c).                      *)
(*                                                                         *)
(* lemmings_read_mfm  : sector memory -> MFM bit stream (the encoder)      *)
(* lemmings_write_mfm : MFM bit stream -> sector memory (the decoder)      *)
(*                                                                         *)
(* A behaviour encodes one track, lets the medium be read back (clean or   *)
(* with read damage) and decodes the stream.  Words are 16 bits wide and   *)
(* the two mark words are the real ones; only the number of data words of  *)
(* a sector (512 in the source) is scaled down to SectorWords.             *)
(***************************************************************************)
EXTENDS Integers, Sequences, FiniteSets, TLC

\* ------------------------------------------------------------------ bounds

\* data words of one sector: the source's 512, scaled down
SectorWords == 1

\* how many times the medium passes under the head in one stream
MaxRevs == 2

\* ------------------------------------------------------- program constants

\* 6 sectors per track
NrSectors == 6

\* the 16-bit mark word
SyncWord == 17545

\* the 32 bits that follow the mark word, 0x552aaaaa, as two halves
SyncTailHi == 21802
SyncTailLo == 43690

\* what the encoder hands to tbuf_bits for them, 0xf000
SyncTailData == 61440

\* bytes_per_sector as written to the track header
SectorBytes == 1024

\* the backdating of the index offset at a mark
MarkBackoff == 15

\* the words of a sector on the track: csum + data (513 in the source)
RawSectorWords == SectorWords + 1

\* the words read per sync attempt: sizeof(raw_dat)/2
RawWords == NrSectors * RawSectorWords

\* bytes of one sector in memory (1024 in the source)
RegionBytes == 2 * SectorWords

\* (1u<<6)-1
AllValid == (2 ^ NrSectors) - 1

Sectors == 0 .. (NrSectors - 1)

\* the range of a uint16_t
W16 == 65536

\* a uint32_t is held as << high half, low half >>
U32(n) == << (n \div W16) % W16, n % W16 >>

\* p - k in uint32_t arithmetic, for 0 <= k < W16
Sub32(p, k) ==
    IF p[2] >= k THEN << p[1], p[2] - k >>
    ELSE << (p[1] + W16 - 1) % W16, p[2] + W16 - k >>

\* (p << n) | v in uint32_t arithmetic, for n <= 16 and v < 2^n
Shl32(p, n, v) ==
    << ((p[1] % (2 ^ (16 - n))) * (2 ^ n)) + (p[2] \div (2 ^ (16 - n))),
       ((p[2] % (2 ^ (16 - n))) * (2 ^ n)) + v >>

\* ---------------------------------------------------------- bit arithmetic

Bit(x, k) == (x \div (2 ^ k)) % 2

\* the n low bits of x, most significant first
WordBits(x, n) == [p \in 1 .. n |-> Bit(x, n - p)]

\* the number whose binary digits are the first n bits of bs
RECURSIVE BitsUpTo(_, _)
BitsUpTo(bs, n) == IF n = 0 THEN 0 ELSE (2 * BitsUpTo(bs, n - 1)) + bs[n]

BitsValue(bs) == BitsUpTo(bs, Len(bs))

\* x & 0x5555 for a 16-bit x, by bit
RECURSIVE And5555(_, _)
And5555(x, k) ==
    IF k >= 16 THEN 0
    ELSE (IF k % 2 = 0 THEN Bit(x, k) * (2 ^ k) ELSE 0) + And5555(x, k + 1)

\* SetBit as an assignment: v = 1u << j
SetBit_Assign(v, j) == 2 ^ j

\* v | (1u << j)
SetBit(v, j) == IF Bit(v, j) = 1 THEN v ELSE v + (2 ^ j)

\* htons(x) as it lies in memory: high byte first
htons(x) == << x \div 256, x % 256 >>

\* ntohs of the two bytes at a uint16_t slot
ntohs(b) == (b[1] * 256) + b[2]

\* the uint16_t slot w (0-based) of a byte buffer
Slot(mem, w) == << mem[(2 * w) + 1], mem[(2 * w) + 2] >>

\* "NLEM"
Tag == << 78, 76, 69, 77 >>

\* the block after the fill loop: the tag repeated
SentinelBlock == [b \in 1 .. (NrSectors * RegionBytes) |-> Tag[((b - 1) % 4) + 1]]

\* ------------------------------------------------ the track buffer writer

\* MFM cells of a run of data bits: each data bit preceded by its clock bit,
\* which is 1 only between two 0 data bits
RECURSIVE MfmCells(_, _)
MfmCells(dbits, prev) ==
    IF dbits = << >> THEN << >>
    ELSE LET d == Head(dbits)
             c == IF prev = 0 /\ d = 0 THEN 1 ELSE 0
         IN  << c, d >> \o MfmCells(Tail(dbits), d)

\* the data bits tbuf_bits takes from x for a plane tag
PlaneBits(type, bits, x) ==
    CASE type = "raw"  -> WordBits(x, bits)
      [] type = "all"  -> WordBits(x, bits)
      [] type = "even" -> [p \in 1 .. (bits \div 2) |-> Bit(x, bits + 1 - (2 * p))]
      [] type = "odd"  -> [p \in 1 .. (bits \div 2) |-> Bit(x, bits - (2 * p))]

\* tbuf_bits(tbuf, DEFAULT_SPEED, type, bits, x)
tbuf_bits(tb, type, bits, x) ==
    LET d     == PlaneBits(type, bits, x)
        cells == IF type = "raw" THEN d ELSE MfmCells(d, tb.prev)
    IN  [tb EXCEPT !.bits = @ \o cells,
                   !.prev = d[Len(d)],
                   !.log = Append(@, << type, bits, x >>)]

\* tbuf_init(tbuf) after start and len are set
tbuf_init(start, len) ==
    [start |-> start, len |-> len, bits |-> << >>, prev |-> 0,
     log |-> << >>, final |-> 0]

\* tbuf_finalise(tbuf); final counts the calls
tbuf_finalise(tb) == [tb EXCEPT !.final = @ + 1]

\* ------------------------------------------------------------------ state

VARIABLES
    pc,             \* where the running call stands
    data,           \* read_mfm: the sector memory handed in (bytes)
    th,             \* the track header of the running call
    valid_sectors,  \* read_mfm: track_valid_sector_map(th)
    mfm,            \* read_mfm: the state of its memalloc'ed block
    tbuf,           \* read_mfm: the track buffer
    i, j,           \* loop counters of the running call
    csum,           \* read_mfm: the checksum word last computed
    dat,            \* read_mfm: the position of dat, in words from data
    s,              \* write_mfm: the stream
    block,          \* write_mfm: the bytes of block
    blk,            \* write_mfm: the state of the allocation block points to
    valid_blocks,   \* write_mfm: the sectors validated so far
    raw_dat,        \* write_mfm: the words demodulated in this attempt
    idx_off,        \* write_mfm: the candidate data start offset
    nr_valid,       \* write_mfm: the sectors validated in this attempt
    ret,            \* write_mfm: what the call returned
    media,          \* history: how the medium was read back
    entry,          \* history: the header as write_mfm was handed it
    attempts        \* history: the sync attempts of the decode, in order

enc_vars == << data, valid_sectors, mfm, tbuf, csum, dat >>

dec_vars == << s, block, blk, valid_blocks, raw_dat, idx_off, nr_valid, ret, attempts >>

vars == << pc, th, i, j, media, entry, enc_vars, dec_vars >>

\* ------------------------------------------------------------ sector data

\* a sector body: SectorWords words base, base + step, ...
Body(base, step) == [k \in 1 .. SectorWords |-> (base + ((k - 1) * step)) % W16]

RECURSIVE WordsToBytes(_)
WordsToBytes(ws) ==
    IF ws = << >> THEN << >> ELSE htons(Head(ws)) \o WordsToBytes(Tail(ws))

RECURSIVE MkBuffer(_, _)
MkBuffer(bases, step) ==
    IF bases = << >> THEN << >>
    ELSE WordsToBytes(Body(Head(bases), step)) \o MkBuffer(Tail(bases), step)

\* the sector memories a run may start from: all-zero and all-ones bodies,
\* bodies whose sum wraps, a body that looks like the mark word, and a
\* body that looks like the sentinel
Buffers ==
    { MkBuffer(<< 0, 65535, 4660, 32767, 32768, 17545 >>, 0),
      MkBuffer(<< 20044, 1, 65534, 43690, 21845, 255 >>, 257) }

\* the data_bitoff values a header may carry
BitOffs == { U32(0), U32(70000) }

\* ----------------------------------------------------- lemmings_read_mfm

\* csum = sum of ntohs(dat[j]), j < 512, in uint16_t arithmetic
RECURSIVE R_Sum(_, _, _)
R_Sum(mem, d, n) ==
    IF n = 0 THEN 0
    ELSE (R_Sum(mem, d, n - 1) + ntohs(Slot(mem, d + n - 1))) % W16

\* R_Invert as a negation
R_Invert_Negate(c) == (W16 - c) % W16

\* csum = ~csum, in uint16_t
R_Invert(c) == (W16 - 1) - c

\* R_Csum with the inversion left out
R_Csum_NoInvert(mem, d, valid, sec) == R_Sum(mem, d, SectorWords)

\* R_Csum summing the first sector whatever dat is
R_Csum_FirstSector(mem, d, valid, sec) ==
    LET c == R_Sum(mem, 0, SectorWords)
    IN  IF Bit(valid, sec) = 0 THEN R_Invert(c) ELSE c

\* the checksum word of sector sec, the encoder's dat standing at d
R_Csum(mem, d, valid, sec) ==
    LET c == R_Sum(mem, d, SectorWords)
    IN  IF Bit(valid, sec) = 0 THEN R_Invert(c) ELSE c

\* R_Planes with the odd plane first
R_Planes_OddFirst(tb, w) == tbuf_bits(tbuf_bits(tb, "odd", 16, w), "even", 16, w)

\* tbuf_bits(.., TBUFDAT_even, 16, w); tbuf_bits(.., TBUFDAT_odd, 16, w)
R_Planes(tb, w) == tbuf_bits(tbuf_bits(tb, "even", 16, w), "odd", 16, w)

\* lines 103-110
R_Init ==
    /\ pc = "r_init"
    /\ valid_sectors' = th.valid_sectors
    /\ dat' = 0
    /\ mfm' = "live"
    /\ tbuf' = tbuf_init(th.data_bitoff, th.total_bits)
    /\ pc' = "r_sync"
    /\ UNCHANGED << data, th, i, j, csum, media, entry, dec_vars >>

\* lines 112-113
R_Sync ==
    /\ pc = "r_sync"
    /\ tbuf' = tbuf_bits(tbuf_bits(tbuf, "raw", 16, SyncWord), "all", 16, SyncTailData)
    /\ i' = 0
    /\ pc' = "r_csum"
    /\ UNCHANGED << data, th, valid_sectors, mfm, j, csum, dat, media, entry, dec_vars >>

\* lines 117-123, for sector i
R_Checksum ==
    /\ pc = "r_csum"
    /\ i < NrSectors
    /\ LET c == R_Csum(data, dat, valid_sectors, i)
       IN  /\ csum' = c
           /\ tbuf' = R_Planes(tbuf, c)
    /\ j' = 0
    /\ pc' = "r_data"
    /\ UNCHANGED << data, th, valid_sectors, mfm, i, dat, media, entry, dec_vars >>

\* lines 124-129, for word j of sector i
R_Word ==
    /\ pc = "r_data"
    /\ j < SectorWords
    /\ tbuf' = R_Planes(tbuf, ntohs(Slot(data, dat)))
    /\ dat' = dat + 1
    /\ j' = j + 1
    /\ IF j + 1 < SectorWords
         THEN /\ pc' = "r_data"
              /\ i' = i
         ELSE /\ i' = i + 1
              /\ pc' = IF i + 1 < NrSectors THEN "r_csum" ELSE "r_final"
    /\ UNCHANGED << data, th, valid_sectors, mfm, csum, media, entry, dec_vars >>

\* line 132 and the return
R_Finalise ==
    /\ pc = "r_final"
    /\ tbuf' = tbuf_finalise(tbuf)
    /\ pc' = "r_ret"
    /\ UNCHANGED << data, th, valid_sectors, mfm, i, j, csum, dat, media, entry, dec_vars >>

\* ------------------------------------------------------ the bit stream

\* a stream over the bits of a read, before its first bit; the index pulse
\* lies before bit index of the read. index_offset is the offset from the
\* index pulse of the bit last fetched
OpenedStream(bits, index) ==
    [bits |-> bits, pos |-> 0, word |-> U32(0), index_offset |-> -1,
     index |-> index, eof |-> FALSE]

\* stream_next_bit(s): s.eof says that it returned -1
stream_next_bit(st) ==
    IF st.pos >= Len(st.bits) THEN [st EXCEPT !.eof = TRUE]
    ELSE [st EXCEPT !.pos = @ + 1,
                    !.word = Shl32(@, 1, st.bits[st.pos + 1]),
                    !.index_offset = IF st.pos = st.index THEN 0 ELSE @ + 1]

\* the number whose binary digits are the n bits of bs after the first from
RECURSIVE BitsAt(_, _, _)
BitsAt(bs, from, n) ==
    IF n = 0 THEN 0 ELSE (2 * BitsAt(bs, from, n - 1)) + bs[from + n]

\* how many of the n bits asked for the stream still has
Got(st, n) == IF Len(st.bits) - st.pos < n THEN Len(st.bits) - st.pos ELSE n

\* stream_next_bits(s, n), n <= 32: stream_next_bit n times, stopping at
\* the first -1; the bits go into s->word in two shifts of 16 at most
stream_next_bits(st, n) ==
    [st EXCEPT
        !.pos = @ + Got(st, n),
        !.word =
            IF Got(st, n) <= 16
            THEN Shl32(@, Got(st, n), BitsAt(st.bits, st.pos, Got(st, n)))
            ELSE Shl32(Shl32(@, 16, BitsAt(st.bits, st.pos, 16)),
                       Got(st, n) - 16,
                       BitsAt(st.bits, st.pos + 16, Got(st, n) - 16)),
        !.index_offset =
            IF st.pos <= st.index /\ st.index < st.pos + Got(st, n)
            THEN st.pos + Got(st, n) - 1 - st.index
            ELSE @ + Got(st, n),
        !.eof = Len(st.bits) - st.pos < n]

\* ------------------------------------------------- reading the medium back

\* the bits of the track before raw word w of sector sec
CellsBefore(sec, w) == 16 + 32 + (32 * ((sec * RawSectorWords) + w))

\* the cell that carries bit 0 of the first data word of sector sec
DataCell(sec) == CellsBefore(sec, 1) + 32

\* one pass of the track under the head, a read error in the sectors of d
Damaged(bits, d) ==
    [p \in 1 .. Len(bits) |->
        IF \E sec \in d : p = DataCell(sec) THEN 1 - bits[p] ELSE bits[p]]

\* the cell that carries bit 15 of raw word w of sector sec
TopCell(sec, w) == CellsBefore(sec, w) + 2

\* one pass with read errors the checksum does not catch in the sectors of
\* f: bit 15 of the checksum word and of the first data word both flipped
Forged(bits, f) ==
    [p \in 1 .. Len(bits) |->
        IF \E sec \in f : p = TopCell(sec, 0) \/ p = TopCell(sec, 1)
        THEN 1 - bits[p] ELSE bits[p]]

RECURSIVE Passes(_, _, _)
Passes(bits, dmg, forged) ==
    IF dmg = << >> THEN << >>
    ELSE Forged(Damaged(bits, Head(dmg)), Head(forged))
             \o Passes(bits, Tail(dmg), Tail(forged))

\* the bits of a read: junk, the passes, gap, and the read stopped cut bits early
MediaBits(bits, m) ==
    LET all == m.pre \o Passes(bits, m.dmg, m.forged) \o m.post
    IN  SubSeq(all, 1, IF m.cut >= Len(all) THEN 0 ELSE Len(all) - m.cut)

\* a read that begins at the index pulse, every read error caught
Rd(pre, dmg, post, cut) ==
    [read |-> TRUE, pre |-> pre, dmg |-> dmg, post |-> post, cut |-> cut,
     index |-> 0, forged |-> [k \in 1 .. Len(dmg) |-> {}]]

NoMedia ==
    [read |-> FALSE, pre |-> << >>, dmg |-> << >>, post |-> << >>, cut |-> 0,
     index |-> 0, forged |-> << >>]

\* a clean re-read: one pass, nothing before or after it, no error
CleanRead == Rd(<< >>, << {} >>, << >>, 0)

\* what may precede the track: nothing, a few gap cells, a stray mark word
\* right before the real one, a stray mark word 32 cells before it
Prefixes ==
    { << >>,
      << 1, 0, 1 >>,
      WordBits(SyncWord, 16),
      WordBits(SyncWord, 16) \o WordBits(43690, 16) \o WordBits(43690, 16) }

\* reads of an unformatted track: no mark word anywhere
Junk ==
    { << >>,
      [p \in 1 .. 20 |-> 0],
      WordBits(17544, 16) \o WordBits(37010, 16) }

Posts == { << >>, << 1, 0, 1, 0 >> }

\* the read errors of a pass: none, in sector 0, in all sectors but 0
Damages == { {}, {0}, Sectors \ {0} }

\* how early a read may stop: inside the last word of the last pass, inside
\* its 32 confirmation bits
Cuts == { 7, (32 * RawWords) + 8 }

\* the validity masks that are also read back with trouble
FewMasks == { 0, 5, 62, AllValid }

\* how many bits after the first bit of the mark word the index pulse may
\* lie, on a track whose data starts shortly before the index
Straddles == { 1, 8 }

\* a clean pass of a track whose mark word straddles the index pulse
Straddled(k) == [Rd(<< >>, << {} >>, << >>, 0) EXCEPT !.index = k]

\* two passes, sectors 1..5 unreadable on both, and on one of them an
\* error in sector 0 that the checksum does not catch
Rereads ==
    { [Rd(<< >>, << Sectors \ {0}, Sectors \ {0} >>, << >>, 0) EXCEPT !.forged = fs] :
        fs \in { << {}, {0} >>, << {0}, {} >> } }

TroubledReads ==
    { Rd(pre, << d >>, post, 0) : pre \in Prefixes, d \in Damages, post \in Posts }
    \cup { Rd(<< >>, ds, << >>, 0) :
             ds \in UNION { [1 .. r -> Damages] : r \in 1 .. MaxRevs } }
    \cup { Rd(<< >>, ds \o << {} >>, << >>, c) :
             ds \in UNION { [1 .. r -> Damages] : r \in 0 .. (MaxRevs - 1) },
             c \in Cuts }
    \cup { Rd(pre, << >>, << >>, 0) : pre \in Junk }
    \cup { Rd(<< 1, 0, 1 >>, << {0}, Sectors \ {0} >>, << >>, 0) }
    \cup { Straddled(k) : k \in Straddles }
    \cup Rereads

\* every mask is read back clean; the masks of FewMasks in every other way too
MediaFor(v) == { CleanRead } \cup (IF v \in FewMasks THEN TroubledReads ELSE {})

\* the headers write_mfm may be handed: a fresh one, and for a track
\* written with no valid sector also one that still describes a track of
\* another format
EntryHeaders(v) ==
    { [data_bitoff |-> U32(0), total_bits |-> th.total_bits,
       bytes_per_sector |-> 0, nr_sectors |-> 0, len |-> 0, valid_sectors |-> 0] }
    \cup (IF v # 0 THEN {}
          ELSE { [data_bitoff |-> U32(70000), total_bits |-> th.total_bits,
                  bytes_per_sector |-> 512, nr_sectors |-> 11, len |-> 5632,
                  valid_sectors |-> 2047] })

\* the caller: the track buffer goes to the medium, the medium is read back
\* as a stream, and write_mfm is called with a header
OpenStream ==
    /\ pc = "r_ret"
    /\ \E m \in MediaFor(valid_sectors) :
          /\ media' = m
          /\ s' = OpenedStream(MediaBits(tbuf.bits, m), m.index)
    /\ th' \in EntryHeaders(valid_sectors)
    /\ entry' = th'
    /\ tbuf' = tbuf_init(U32(0), 0)
    /\ pc' = "w_init"
    /\ UNCHANGED << data, valid_sectors, mfm, csum, dat, i, j >>
    /\ UNCHANGED << block, blk, valid_blocks, raw_dat, idx_off, nr_valid, ret, attempts >>

\* ---------------------------------------------------- lemmings_write_mfm

\* Demod with the two halves taken the other way round
Demod_Swapped(e, o) == (2 * And5555(o, 0)) + And5555(e, 0)

\* ((e & 0x5555u) << 1) | (o & 0x5555u)
Demod(e, o) == (2 * And5555(e, 0)) + And5555(o, 0)

\* W_Stored with a sector stride of 512 words
W_Stored_Stride(raw, sec) == ntohs(raw[(sec * SectorWords) + 1])

\* the stored checksum of sector sec of raw_dat: ntohs(*sec++)
W_Stored(raw, sec) == ntohs(raw[(sec * RawSectorWords) + 1])

\* c: the sum of ntohs(sec[k]), k < 512, in uint16_t arithmetic
RECURSIVE W_Sum(_, _, _)
W_Sum(raw, sec, n) ==
    IF n = 0 THEN 0
    ELSE (W_Sum(raw, sec, n - 1) + ntohs(raw[(sec * RawSectorWords) + 1 + n])) % W16

\* c == csum
W_Matches(raw, sec) == W_Sum(raw, sec, SectorWords) = W_Stored(raw, sec)

\* the 1024 bytes at sec, as memcpy takes them
RECURSIVE W_Bytes(_, _, _)
W_Bytes(raw, sec, n) ==
    IF n = 0 THEN << >>
    ELSE W_Bytes(raw, sec, n - 1) \o raw[(sec * RawSectorWords) + 1 + n]

\* W_Copy landing one sector further
W_Copy_Next(b, raw, sec) ==
    LET bytes == W_Bytes(raw, sec, SectorWords)
    IN  [p \in 1 .. Len(b) |->
            IF (p - 1) \div RegionBytes = (sec + 1) % NrSectors
            THEN bytes[((p - 1) % RegionBytes) + 1]
            ELSE b[p]]

\* memcpy(&block[j*1024], sec, 1024)
W_Copy(b, raw, sec) ==
    LET bytes == W_Bytes(raw, sec, SectorWords)
    IN  [p \in 1 .. Len(b) |->
            IF (p - 1) \div RegionBytes = sec
            THEN bytes[((p - 1) % RegionBytes) + 1]
            ELSE b[p]]

\* W_Unfinished never satisfied
W_Unfinished_Always(vb) == TRUE

\* the second half of the loop condition: valid_blocks != ((1u<<6)-1)
W_Unfinished(vb) == vb # AllValid

\* idx_off = s->index_offset - 15
W_IdxOff(st) == Sub32(U32(st.index_offset), MarkBackoff)

\* W_Bitoff without the test of nr_valid
W_Bitoff_Always(old, nr, off) == off

\* W_Bitoff keeping the first offset recorded
W_Bitoff_First(old, nr, off) == IF nr # 0 /\ old = U32(0) THEN off ELSE old

\* if ( nr_valid ) th->data_bitoff = idx_off
W_Bitoff(old, nr, off) == IF nr # 0 THEN off ELSE old

\* W_NoData asking for all sectors
W_NoData_Strict(vb) == vb # AllValid

\* W_NoData with the test left out
W_NoData_Never(vb) == FALSE

\* the test at done: valid_blocks == 0
W_NoData(vb) == vb = 0

\* W_AtEof validating the sectors whose words were all read
W_AtEof_Salvage(vb, raw, n) ==
    LET RECURSIVE Take(_, _)
        Take(v, sec) ==
            IF sec >= NrSectors \/ (sec + 1) * RawSectorWords > n THEN v
            ELSE Take(IF W_Matches(raw, sec) THEN SetBit(v, sec) ELSE v, sec + 1)
    IN  Take(vb, 0)

\* goto done with n words of the attempt read: the validation loop of
\* lines 66-78 is skipped and valid_blocks stays
W_AtEof(vb, raw, n) == vb

\* history: the last attempt, changed
Note(f, v) == [attempts EXCEPT ![Len(attempts)][f] = v]

\* lines 33-37
W_Init ==
    /\ pc = "w_init"
    /\ block' = SentinelBlock
    /\ blk' = "live"
    /\ valid_blocks' = 0
    /\ pc' = "w_scan"
    /\ UNCHANGED << th, i, j, media, entry, enc_vars >>
    /\ UNCHANGED << s, raw_dat, idx_off, nr_valid, ret, attempts >>

\* line 39: stream_next_bit returned -1
W_ScanEof ==
    /\ pc = "w_scan"
    /\ stream_next_bit(s).eof
    /\ s' = stream_next_bit(s)
    /\ pc' = "w_done"
    /\ UNCHANGED << th, i, j, media, entry, enc_vars >>
    /\ UNCHANGED << block, blk, valid_blocks, raw_dat, idx_off, nr_valid, ret, attempts >>

\* lines 39-40: a bit was fetched and all sectors are valid
W_ScanFull ==
    /\ pc = "w_scan"
    /\ ~stream_next_bit(s).eof
    /\ ~W_Unfinished(valid_blocks)
    /\ s' = stream_next_bit(s)
    /\ pc' = "w_done"
    /\ UNCHANGED << th, i, j, media, entry, enc_vars >>
    /\ UNCHANGED << block, blk, valid_blocks, raw_dat, idx_off, nr_valid, ret, attempts >>

\* lines 39-46: the low half of s->word is not the mark word
W_ScanSkip ==
    /\ pc = "w_scan"
    /\ ~stream_next_bit(s).eof
    /\ W_Unfinished(valid_blocks)
    /\ stream_next_bit(s).word[2] # SyncWord
    /\ s' = stream_next_bit(s)
    /\ nr_valid' = 0
    /\ pc' = "w_scan"
    /\ UNCHANGED << th, i, j, media, entry, enc_vars >>
    /\ UNCHANGED << block, blk, valid_blocks, raw_dat, idx_off, ret, attempts >>

\* lines 39-48: the mark word is in s->word
W_ScanMark ==
    /\ pc = "w_scan"
    /\ ~stream_next_bit(s).eof
    /\ W_Unfinished(valid_blocks)
    /\ stream_next_bit(s).word[2] = SyncWord
    /\ s' = stream_next_bit(s)
    /\ nr_valid' = 0
    /\ idx_off' = W_IdxOff(s')
    /\ attempts' = Append(attempts,
                          [off |-> idx_off', at |-> s'.pos, end |-> "open",
                           words |-> 0, hits |-> {}, before |-> valid_blocks])
    /\ pc' = "w_confirm"
    /\ UNCHANGED << th, i, j, media, entry, enc_vars >>
    /\ UNCHANGED << block, blk, valid_blocks, raw_dat, ret >>

\* lines 50-51
W_ConfirmEof ==
    /\ pc = "w_confirm"
    /\ stream_next_bits(s, 32).eof
    /\ s' = stream_next_bits(s, 32)
    /\ valid_blocks' = W_AtEof(valid_blocks, << >>, 0)
    /\ attempts' = Note("end", "cut")
    /\ pc' = "w_done"
    /\ UNCHANGED << th, i, j, media, entry, enc_vars >>
    /\ UNCHANGED << block, blk, raw_dat, idx_off, nr_valid, ret >>

\* lines 50-54: the 32 bits are not 0x552aaaaa
W_ConfirmMismatch ==
    /\ pc = "w_confirm"
    /\ ~stream_next_bits(s, 32).eof
    /\ stream_next_bits(s, 32).word # << SyncTailHi, SyncTailLo >>
    /\ s' = stream_next_bits(s, 32)
    /\ attempts' = Note("end", "rejected")
    /\ pc' = "w_scan"
    /\ UNCHANGED << th, i, j, media, entry, enc_vars >>
    /\ UNCHANGED << block, blk, valid_blocks, raw_dat, idx_off, nr_valid, ret >>

\* lines 50-56: the sync is confirmed
W_ConfirmOk ==
    /\ pc = "w_confirm"
    /\ ~stream_next_bits(s, 32).eof
    /\ stream_next_bits(s, 32).word = << SyncTailHi, SyncTailLo >>
    /\ s' = stream_next_bits(s, 32)
    /\ raw_dat' = << >>
    /\ j' = 0
    /\ pc' = "w_demod"
    /\ UNCHANGED << th, i, media, entry, enc_vars >>
    /\ UNCHANGED << block, blk, valid_blocks, idx_off, nr_valid, ret, attempts >>

\* lines 59-60
W_DemodEof ==
    /\ pc = "w_demod"
    /\ stream_next_bits(s, 32).eof
    /\ s' = stream_next_bits(s, 32)
    /\ valid_blocks' = W_AtEof(valid_blocks, raw_dat, j)
    /\ attempts' = Note("end", "cut")
    /\ pc' = "w_done"
    /\ UNCHANGED << th, i, j, media, entry, enc_vars >>
    /\ UNCHANGED << block, blk, raw_dat, idx_off, nr_valid, ret >>

\* lines 56-64, for word j
W_DemodWord ==
    /\ pc = "w_demod"
    /\ ~stream_next_bits(s, 32).eof
    /\ s' = stream_next_bits(s, 32)
    /\ raw_dat' = Append(raw_dat, htons(Demod(s'.word[1], s'.word[2])))
    /\ attempts' = Note("words", j + 1)
    /\ IF j + 1 < RawWords
         THEN /\ j' = j + 1
              /\ pc' = "w_demod"
         ELSE /\ j' = 0
              /\ pc' = "w_check"
    /\ UNCHANGED << th, i, media, entry, enc_vars >>
    /\ UNCHANGED << block, blk, valid_blocks, idx_off, nr_valid, ret >>

\* W_CheckMatch leaving a sector that is valid already as it is
W_CheckMatch_FirstWins ==
    /\ pc = "w_check"
    /\ W_Matches(raw_dat, j)
    /\ block' = IF Bit(valid_blocks, j) = 1 THEN block ELSE W_Copy(block, raw_dat, j)
    /\ valid_blocks' = SetBit(valid_blocks, j)
    /\ nr_valid' = IF Bit(valid_blocks, j) = 1 THEN nr_valid ELSE nr_valid + 1
    /\ attempts' = Note("hits", attempts[Len(attempts)].hits \cup {j})
    /\ j' = j + 1
    /\ pc' = IF j + 1 < NrSectors THEN "w_check" ELSE "w_record"
    /\ UNCHANGED << th, i, media, entry, enc_vars >>
    /\ UNCHANGED << s, blk, raw_dat, idx_off, ret >>

\* lines 66-78, for sector j: the checksum matches
W_CheckMatch ==
    /\ pc = "w_check"
    /\ W_Matches(raw_dat, j)
    /\ block' = W_Copy(block, raw_dat, j)
    /\ valid_blocks' = SetBit(valid_blocks, j)
    /\ nr_valid' = nr_valid + 1
    /\ attempts' = Note("hits", attempts[Len(attempts)].hits \cup {j})
    /\ j' = j + 1
    /\ pc' = IF j + 1 < NrSectors THEN "w_check" ELSE "w_record"
    /\ UNCHANGED << th, i, media, entry, enc_vars >>
    /\ UNCHANGED << s, blk, raw_dat, idx_off, ret >>

\* lines 66-78, for sector j: it does not
W_CheckMiss ==
    /\ pc = "w_check"
    /\ ~W_Matches(raw_dat, j)
    /\ j' = j + 1
    /\ pc' = IF j + 1 < NrSectors THEN "w_check" ELSE "w_record"
    /\ UNCHANGED << th, i, media, entry, enc_vars >>
    /\ UNCHANGED << s, block, blk, valid_blocks, raw_dat, idx_off, nr_valid, ret, attempts >>

\* lines 80-82, and raw_dat goes out of scope
W_Record ==
    /\ pc = "w_record"
    /\ th' = [th EXCEPT !.data_bitoff = W_Bitoff(@, nr_valid, idx_off)]
    /\ attempts' = Note("end", "complete")
    /\ raw_dat' = << >>
    /\ pc' = "w_scan"
    /\ UNCHANGED << i, j, media, entry, enc_vars >>
    /\ UNCHANGED << s, block, blk, valid_blocks, idx_off, nr_valid, ret >>

\* lines 84-89
W_ReturnNull ==
    /\ pc = "w_done"
    /\ W_NoData(valid_blocks)
    /\ blk' = "freed"
    /\ ret' = "NULL"
    /\ pc' = "w_ret"
    /\ UNCHANGED << th, i, j, media, entry, enc_vars >>
    /\ UNCHANGED << s, block, valid_blocks, raw_dat, idx_off, nr_valid, attempts >>

\* lines 91-96
W_ReturnBlock ==
    /\ pc = "w_done"
    /\ ~W_NoData(valid_blocks)
    /\ th' = [th EXCEPT !.bytes_per_sector = SectorBytes,
                        !.nr_sectors = NrSectors,
                        !.len = NrSectors * SectorBytes,
                        !.valid_sectors = valid_blocks]
    /\ blk' = "returned"
    /\ ret' = "block"
    /\ pc' = "w_ret"
    /\ UNCHANGED << i, j, media, entry, enc_vars >>
    /\ UNCHANGED << s, block, valid_blocks, raw_dat, idx_off, nr_valid, attempts >>

\* ---------------------------------------------------------- specification

Init ==
    /\ pc = "r_init"
    /\ data \in Buffers
    /\ \E off \in BitOffs, v \in 0 .. AllValid :
          th = [data_bitoff |-> off, total_bits |-> 100000,
                bytes_per_sector |-> SectorBytes, nr_sectors |-> NrSectors,
                len |-> NrSectors * SectorBytes, valid_sectors |-> v]
    /\ valid_sectors = 0
    /\ mfm = "none"
    /\ tbuf = tbuf_init(U32(0), 0)
    /\ i = 0
    /\ j = 0
    /\ csum = 0
    /\ dat = 0
    /\ s = OpenedStream(<< >>, 0)
    /\ block = << >>
    /\ blk = "none"
    /\ valid_blocks = 0
    /\ raw_dat = << >>
    /\ idx_off = U32(0)
    /\ nr_valid = 0
    /\ ret = "none"
    /\ media = NoMedia
    /\ entry = th
    /\ attempts = << >>

Next ==
    \/ R_Init
    \/ R_Sync
    \/ R_Checksum
    \/ R_Word
    \/ R_Finalise
    \/ OpenStream
    \/ W_Init
    \/ W_ScanEof
    \/ W_ScanFull
    \/ W_ScanSkip
    \/ W_ScanMark
    \/ W_ConfirmEof
    \/ W_ConfirmMismatch
    \/ W_ConfirmOk
    \/ W_DemodEof
    \/ W_DemodWord
    \/ W_CheckMatch
    \/ W_CheckMiss
    \/ W_Record
    \/ W_ReturnNull
    \/ W_ReturnBlock

Spec == Init /\ [][Next]_vars

\* both calls run to completion once called: no step waits on anything
FairSpec == Spec /\ WF_vars(Next)

\* ------------------------------------------- one word through both calls

\* what the clock cells of a read may hold: the MFM clocks as written, all
\* 0, all 1, the written clocks inverted
ClockNoise == { "mfm", "zero", "one", "flip" }

\* the cells of an emission read back with its clock cells as noise says
Clocked(cells, noise) ==
    [p \in 1 .. Len(cells) |->
        IF p % 2 = 0 THEN cells[p]
        ELSE CASE noise = "mfm"  -> cells[p]
               [] noise = "zero" -> 0
               [] noise = "one"  -> 1
               [] noise = "flip" -> 1 - cells[p]]

\* the encoder emits the word csum, a checksum or a data word, as lines
\* 122-123 and 126-127 do
P_Emit ==
    /\ pc = "p_word"
    /\ tbuf' = R_Planes(tbuf, csum)
    /\ pc' = "p_read"
    /\ UNCHANGED << data, th, valid_sectors, mfm, i, j, csum, dat, media, entry, dec_vars >>

\* the 32 cells come back from the medium, the clock cells as any noise
P_Read ==
    /\ pc = "p_read"
    /\ \E noise \in ClockNoise : s' = OpenedStream(Clocked(tbuf.bits, noise), 0)
    /\ pc' = "p_demod"
    /\ UNCHANGED << th, i, j, media, entry, enc_vars >>
    /\ UNCHANGED << block, blk, valid_blocks, raw_dat, idx_off, nr_valid, ret, attempts >>

\* lines 59-63 for that one word
P_Demod ==
    /\ pc = "p_demod"
    /\ ~stream_next_bits(s, 32).eof
    /\ s' = stream_next_bits(s, 32)
    /\ raw_dat' = << htons(Demod(s'.word[1], s'.word[2])) >>
    /\ pc' = "p_done"
    /\ UNCHANGED << th, i, j, media, entry, enc_vars >>
    /\ UNCHANGED << block, blk, valid_blocks, idx_off, nr_valid, ret, attempts >>

\* every 16-bit word
DemodInit ==
    /\ pc = "p_word"
    /\ csum \in 0 .. (W16 - 1)
    /\ data = << >>
    /\ th = [data_bitoff |-> U32(0), total_bits |-> 100000,
             bytes_per_sector |-> SectorBytes, nr_sectors |-> NrSectors,
             len |-> NrSectors * SectorBytes, valid_sectors |-> AllValid]
    /\ valid_sectors = AllValid
    /\ mfm = "live"
    /\ tbuf = tbuf_init(U32(0), 100000)
    /\ i = 0
    /\ j = 0
    /\ dat = 0
    /\ s = OpenedStream(<< >>, 0)
    /\ block = << >>
    /\ blk = "none"
    /\ valid_blocks = 0
    /\ raw_dat = << >>
    /\ idx_off = U32(0)
    /\ nr_valid = 0
    /\ ret = "none"
    /\ media = NoMedia
    /\ entry = th
    /\ attempts = << >>

DemodNext ==
    \/ P_Emit
    \/ P_Read
    \/ P_Demod

DemodSpec == DemodInit /\ [][DemodNext]_vars

\* ------------------------------------------------------------- properties

\* the bytes of sector sec in a sector memory
Region(mem, sec) == SubSeq(mem, (sec * RegionBytes) + 1, (sec + 1) * RegionBytes)

\* the sectors of a validity mask
MaskSet(v) == { sec \in Sectors : Bit(v, sec) = 1 }

\* the sectors whose checksum matched in some attempt of the decode
AllHits == UNION { attempts[k].hits : k \in 1 .. Len(attempts) }

Returned == pc = "w_ret"

\* C1 as stated: after a clean re-read of the encoding of (B, V), for every
\* V including 0, the decoder returns a buffer equal to B where V is set,
\* sentinel where V is unset, and stores V as the validity mask.
C1_RoundTripAnyMask ==
    (Returned /\ media = CleanRead) =>
        /\ ret = "block"
        /\ th.valid_sectors = valid_sectors
        /\ \A sec \in Sectors :
              Region(block, sec) =
                 IF sec \in MaskSet(valid_sectors) THEN Region(data, sec)
                 ELSE Region(SentinelBlock, sec)

\* C1 amended: the round trip holds for every V other than 0; for V = 0 the
\* decoder returns the no-data result, the buffer released and no mask stored.
C1_RoundTrip ==
    (Returned /\ media = CleanRead) =>
        IF valid_sectors = 0
        THEN /\ ret = "NULL"
             /\ blk = "freed"
             /\ th = entry
        ELSE /\ ret = "block"
             /\ blk = "returned"
             /\ th.valid_sectors = valid_sectors
             /\ \A sec \in Sectors :
                   Region(block, sec) =
                      IF sec \in MaskSet(valid_sectors) THEN Region(data, sec)
                      ELSE Region(SentinelBlock, sec)

\* a clean round trip of a mask with set and unset bits, where the memory
\* of an unset sector was not the sentinel and came back as the sentinel
C1_Witness ==
    /\ Returned
    /\ media = CleanRead
    /\ ret = "block"
    /\ valid_sectors = 5
    /\ Region(block, 0) = Region(data, 0)
    /\ Region(data, 1) # Region(SentinelBlock, 1)
    /\ Region(block, 1) = Region(SentinelBlock, 1)

\* C2: the decoder returns NULL, the buffer released, exactly when no
\* sector checksum matched in any sync attempt; otherwise it returns the
\* buffer, the stored mask is the non-empty set of the sectors that matched
\* in some attempt, and the header says 1024, 6 and 6144.
C2_Outcome ==
    Returned =>
        /\ (ret = "NULL") <=> (AllHits = {})
        /\ ret \in { "NULL", "block" }
        /\ ret = "NULL" => blk = "freed"
        /\ ret = "block" =>
              /\ blk = "returned"
              /\ MaskSet(th.valid_sectors) = AllHits
              /\ AllHits # {}
              /\ th.bytes_per_sector = 1024
              /\ th.nr_sectors = 6
              /\ th.len = 6144

\* a buffer returned with the sectors of two attempts, not all six
C2_Witness ==
    /\ Returned
    /\ ret = "block"
    /\ Len(attempts) = 2
    /\ attempts[1].hits # {}
    /\ attempts[2].hits \ attempts[1].hits # {}
    /\ AllHits # Sectors

\* C3, the state part: while the block is the decoder's or the caller's,
\* a sector whose validity bit is unset holds the sentinel
C3_SentinelState ==
    blk \in { "live", "returned" } =>
        \A sec \in Sectors :
            Bit(valid_blocks, sec) = 0 => Region(block, sec) = Region(SentinelBlock, sec)

\* C3, the step part: a step that changes the region of a sector is a step
\* of the validation loop at that sector, and the sector's bit is set after it
C3_SentinelStep ==
    blk = "live" =>
        \A sec \in Sectors :
            Region(block', sec) # Region(block, sec) =>
                /\ pc = "w_check"
                /\ j = sec
                /\ Bit(valid_blocks', sec) = 1

\* C3: in every state of a decode and in the returned buffer, a sector
\* whose validity bit is unset still holds the sentinel; a sector region is
\* written only in the step that sets its validity bit.
C3_Sentinel == [](C3_SentinelState) /\ [][C3_SentinelStep]_vars

\* a returned buffer with a valid sector that is not the sentinel and an
\* unset one
C3_Witness ==
    /\ Returned
    /\ ret = "block"
    /\ \E a, b \in Sectors :
          /\ Bit(valid_blocks, a) = 1
          /\ Region(block, a) # Region(SentinelBlock, a)
          /\ Bit(valid_blocks, b) = 0

\* a sync (mark word and the 32 bits after it) lies in bits after p bits
SyncAt(bits, p) ==
    /\ p + 48 <= Len(bits)
    /\ BitsValue(SubSeq(bits, p + 1, p + 16)) = SyncWord
    /\ BitsValue(SubSeq(bits, p + 17, p + 32)) = SyncTailHi
    /\ BitsValue(SubSeq(bits, p + 33, p + 48)) = SyncTailLo

\* C4: after a candidate mark whose 32 confirmation bits do not match, a
\* genuine sync that begins inside those 32 bits, with all its words in
\* the stream, is still found and decoded.
C4_Resync ==
    Returned =>
        \A k \in 1 .. Len(attempts) :
            attempts[k].end = "rejected" =>
                \A p \in attempts[k].at .. (attempts[k].at + 31) :
                    (SyncAt(s.bits, p) /\ p + 48 + (32 * RawWords) <= Len(s.bits)) =>
                        \E a \in 1 .. Len(attempts) :
                            /\ attempts[a].at = p + 16
                            /\ attempts[a].end = "complete"

\* the words of sector sec of a sector memory
WordsOf(mem, sec) == [k \in 1 .. SectorWords |-> ntohs(Slot(mem, (sec * SectorWords) + k - 1))]

\* the wraparound sum of a sequence of words
RECURSIVE SumOf(_)
SumOf(ws) == IF ws = << >> THEN 0 ELSE (Head(ws) + SumOf(Tail(ws))) % W16

\* the words of sector sec as a pass with read errors in d carries them:
\* bit 0 of the first word is flipped in the sectors of d
WordsOnPass(sec, d) ==
    LET ws == WordsOf(data, sec)
    IN  IF sec \in d
        THEN [ws EXCEPT ![1] = IF @ % 2 = 0 THEN @ + 1 ELSE @ - 1]
        ELSE ws

\* the checksum word the track carries for sector sec
CsumOnTrack(sec) ==
    IF sec \in MaskSet(valid_sectors) THEN SumOf(WordsOf(data, sec))
    ELSE 65535 - SumOf(WordsOf(data, sec))

\* the sectors whose stored checksum is the sum of their words on that pass
GoodOnPass(d) == { sec \in Sectors : CsumOnTrack(sec) = SumOf(WordsOnPass(sec, d)) }

\* the read holds one sync: one whole pass and no stray mark before it
OneSync ==
    /\ media.read
    /\ Len(media.dmg) = 1
    /\ media.cut = 0
    /\ media.pre \in { << >>, << 1, 0, 1 >> }

\* C5: on a stream with one sync attempt, if exactly the sectors of a
\* non-empty set S have a stored checksum equal to the sum of their words,
\* the decoder returns the buffer with exactly the bits of S set.
C5_PartialRecovery ==
    (Returned /\ OneSync /\ GoodOnPass(media.dmg[1]) # {}) =>
        /\ ret = "block"
        /\ Len(attempts) = 1
        /\ MaskSet(th.valid_sectors) = GoodOnPass(media.dmg[1])
        /\ \A sec \in GoodOnPass(media.dmg[1]) :
              WordsOf(block, sec) = WordsOnPass(sec, media.dmg[1])

\* 4 of 6 sectors good, 2 corrupted: the 4 come back
C5_Witness ==
    /\ Returned
    /\ OneSync
    /\ Cardinality(GoodOnPass(media.dmg[1])) = 4
    /\ ret = "block"
    /\ Cardinality(MaskSet(th.valid_sectors)) = 4

\* the mark word lies nowhere in bits
NoMark(bits) ==
    \A p \in 0 .. (Len(bits) - 16) : BitsValue(SubSeq(bits, p + 1, p + 16)) # SyncWord

\* C6: on a stream that holds the mark word at no bit alignment the decoder
\* returns NULL, the buffer released, having begun no sync attempt.
C6_NoSync ==
    (Returned /\ NoMark(s.bits)) =>
        /\ ret = "NULL"
        /\ blk = "freed"
        /\ attempts = << >>
        /\ s.eof

\* such a stream, long enough to hold a mark word, decoded to its end
C6_Witness ==
    /\ Returned
    /\ Len(s.bits) >= 32
    /\ NoMark(s.bits)
    /\ ret = "NULL"
    /\ s.pos = Len(s.bits)

\* the decoder has been called
Decoding ==
    pc \in { "w_init", "w_scan", "w_confirm", "w_demod", "w_check", "w_record",
             "w_done", "w_ret" }

\* the attempts that ran their validation loop with at least one match
GoodAttempts ==
    { k \in 1 .. Len(attempts) : attempts[k].end = "complete" /\ attempts[k].hits # {} }

\* the greatest element of a non-empty set of numbers
Last(S) == CHOOSE k \in S : \A m \in S : m <= k

\* C7: the recorded data-bit-offset is the candidate offset of the last
\* attempt in which some checksum matched (the header's entry value while
\* there is none); an attempt without a match does not change it.
C7_OffsetRecording ==
    Decoding =>
        th.data_bitoff =
            IF GoodAttempts = {} THEN entry.data_bitoff
            ELSE attempts[Last(GoodAttempts)].off

\* data returned after two attempts with matches at different offsets,
\* the second one recorded
C7_Witness ==
    /\ Returned
    /\ ret = "block"
    /\ GoodAttempts = { 1, 2 }
    /\ attempts[1].off # attempts[2].off
    /\ th.data_bitoff = attempts[2].off

\* C8: the checksum word the encoder emits for a sector whose bit is unset
\* is the 16-bit complement of the sum of the sector's words and differs
\* from that sum (for every 16-bit sum); read back clean, the decoder's own
\* sum differs from the stored word and the sector is never marked valid.
C8_Inversion ==
    /\ (pc = "r_data" /\ j = 0 /\ Bit(valid_sectors, i) = 0) =>
          /\ csum = 65535 - SumOf(WordsOf(data, i))
          /\ csum # SumOf(WordsOf(data, i))
    /\ (pc = "r_init" /\ th.valid_sectors = 0) =>
          \A c \in 0 .. 65535 : R_Invert(c) # c /\ R_Invert(c) \in 0 .. 65535
    /\ (pc = "w_check" /\ media = CleanRead /\ Bit(valid_sectors, j) = 0) =>
          /\ W_Stored(raw_dat, j) = 65535 - SumOf(WordsOf(data, j))
          /\ W_Sum(raw_dat, j, SectorWords) = SumOf(WordsOf(data, j))
    /\ (Decoding /\ media = CleanRead) =>
          MaskSet(valid_blocks) \subseteq MaskSet(valid_sectors)

\* an all-zero and an all-ones sector, both with their bit unset, read back
\* clean and left invalid beside a valid one
C8_Witness ==
    /\ Returned
    /\ media = CleanRead
    /\ \A k \in 1 .. SectorWords : WordsOf(data, 0)[k] = 0
    /\ \A k \in 1 .. SectorWords : WordsOf(data, 1)[k] = 65535
    /\ MaskSet(valid_sectors) = { 2 }
    /\ MaskSet(valid_blocks) = { 2 }
    /\ Len(attempts) = 1 /\ attempts[1].end = "complete"

\* C9, the step part: at the loop head with sectors missing and bits left
\* the scan goes on; with all six valid no attempt begins
C9_ScanStep ==
    /\ (pc = "w_scan" /\ valid_blocks # AllValid /\ s.pos < Len(s.bits)) =>
          pc' \in { "w_scan", "w_confirm" }
    /\ valid_blocks = AllValid => (Len(attempts') = Len(attempts) /\ pc' # "w_confirm")

\* C9, the state part: a return with sectors missing is after exhaustion
C9_ScanState ==
    (pc \in { "w_done", "w_ret" } /\ valid_blocks # AllValid) => s.eof

\* C9: the decoder terminates on every stream; it scans on while sectors
\* are missing and the stream has bits, begins no attempt once all six are
\* valid, and returns with sectors missing only after exhaustion.
C9_Termination ==
    /\ <>(Returned)
    /\ [](C9_ScanState)
    /\ [][C9_ScanStep]_vars

\* a return with all six valid and bits of a further pass left unread
C9_Witness ==
    /\ Returned
    /\ valid_blocks = AllValid
    /\ ~s.eof
    /\ Len(media.dmg) = 2
    /\ Len(attempts) = 1
    /\ SyncAt(s.bits, s.pos - 1)

\* the last attempt ended on exhaustion
LastCut == attempts # << >> /\ attempts[Len(attempts)].end = "cut"

\* C10, the step part: exhaustion in the confirmation read or in a word
\* read ends the attempt and leaves mask, buffer and header as they were
C10_AbandonStep ==
    (pc \in { "w_confirm", "w_demod" } /\ s'.eof) =>
        /\ pc' = "w_done"
        /\ valid_blocks' = valid_blocks
        /\ block' = block
        /\ th' = th

\* C10, the state part: the mask is what the attempts before had when the
\* cut attempt began, and the result is decided from it
C10_AbandonState ==
    (Returned /\ LastCut) =>
        /\ attempts[Len(attempts)].hits = {}
        /\ valid_blocks = attempts[Len(attempts)].before
        /\ (ret = "NULL") <=> (attempts[Len(attempts)].before = 0)
        /\ ret = "block" => th.valid_sectors = attempts[Len(attempts)].before

\* C10: exhaustion inside an attempt abandons the whole attempt: none of
\* its sectors is validated, mask, buffer and offset stay, and the result
\* is decided from the earlier attempts.
C10_Abandon == [](C10_AbandonState) /\ [][C10_AbandonStep]_vars

\* a second attempt cut in its last word: sector 0, missing so far, was
\* read whole with a matching checksum and stays invalid
C10_Witness ==
    /\ Returned
    /\ LastCut
    /\ Len(attempts) = 2
    /\ attempts[2].words >= RawSectorWords
    /\ W_Matches(raw_dat, 0)
    /\ ret = "block"
    /\ MaskSet(th.valid_sectors) = Sectors \ {0}

\* the encoder is past tbuf_init
Encoding == pc \in { "r_sync", "r_csum", "r_data", "r_final", "r_ret" }

\* the emissions of a whole track: 2 for the marks, 2 per word
EmissionsDue == 2 + (2 * RawWords)

\* emission k of the track buffer is the one due at place k
EmissionDue(k) ==
    LET e == tbuf.log[k]
    IN  IF k = 1 THEN e = << "raw", 16, 17545 >>
        ELSE IF k = 2 THEN e = << "all", 16, SyncTailData >>
        ELSE LET w   == (k - 3) \div 2
                 sec == w \div RawSectorWords
                 pos == w % RawSectorWords
             IN  /\ e[1] = (IF (k - 3) % 2 = 0 THEN "even" ELSE "odd")
                 /\ e[2] = 16
                 /\ (k - 3) % 2 = 1 => e[3] = tbuf.log[k - 1][3]
                 /\ IF pos = 0
                      THEN e[3] \in { SumOf(WordsOf(data, sec)),
                                      65535 - SumOf(WordsOf(data, sec)) }
                      ELSE e[3] = WordsOf(data, sec)[pos]

\* C11: the track buffer starts at the header's data-bit-offset before
\* any emission; the emissions are the mark word raw, the second mark, then
\* for sectors 0..5 the checksum word and the data words in order, each as an
\* even-plane emission followed by an odd-plane emission of the same value;
\* finalise is called once, after the last emission.
C11_EmissionOrder ==
    /\ pc = "r_init" => tbuf.log = << >>
    /\ Encoding =>
          /\ tbuf.start = th.data_bitoff
          /\ \A k \in 1 .. Len(tbuf.log) : EmissionDue(k)
          /\ Len(tbuf.log) =
                CASE pc = "r_sync" -> 0
                  [] pc = "r_csum" -> 2 + (2 * i * RawSectorWords)
                  [] pc = "r_data" -> 2 + (2 * ((i * RawSectorWords) + 1 + j))
                  [] OTHER         -> EmissionsDue
          /\ tbuf.final = (IF pc = "r_ret" THEN 1 ELSE 0)

\* a track emitted whole and finalised, at a data-bit-offset other than 0,
\* the last data word of sector 5 emitted last
C11_Witness ==
    /\ pc = "r_ret"
    /\ tbuf.start = U32(70000)
    /\ tbuf.final = 1
    /\ Len(tbuf.log) = EmissionsDue
    /\ tbuf.log[EmissionsDue] = << "odd", 16, WordsOf(data, 5)[SectorWords] >>
    /\ WordsOf(data, 5)[SectorWords] # WordsOf(data, 4)[SectorWords]

\* the checksum word emitted for sector sec: the value of its even emission
CsumEmitted(sec) == tbuf.log[3 + (2 * sec * RawSectorWords)][3]

\* C12: for every sector i the checksum word the encoder emits is the sum
\* modulo 65536 of the words of sector i itself when bit i of the persisted
\* mask is set and the complement of that sum when it is unset; the choice
\* is made by the mask bit alone.
C12_EncoderChecksum ==
    /\ Encoding => valid_sectors = th.valid_sectors
    /\ pc \in { "r_csum", "r_data" } => dat = (i * SectorWords) + (IF pc = "r_data" THEN j ELSE 0)
    /\ pc = "r_data" =>
          csum = (IF Bit(th.valid_sectors, i) = 1
                  THEN SumOf(WordsOf(data, i))
                  ELSE 65535 - SumOf(WordsOf(data, i)))
    /\ pc = "r_ret" =>
          \A sec \in Sectors :
              CsumEmitted(sec) = (IF Bit(th.valid_sectors, sec) = 1
                                  THEN SumOf(WordsOf(data, sec))
                                  ELSE 65535 - SumOf(WordsOf(data, sec)))

\* a track emitted with set and unset bits in the mask: a set sector other
\* than sector 0 carries its own sum, which is not the sum of sector 0, and
\* an unset one carries the complement
C12_Witness ==
    /\ pc = "r_ret"
    /\ MaskSet(th.valid_sectors) = { 0, 2 }
    /\ CsumEmitted(2) = SumOf(WordsOf(data, 2))
    /\ CsumEmitted(2) # SumOf(WordsOf(data, 0))
    /\ CsumEmitted(1) = 65535 - SumOf(WordsOf(data, 1))
    /\ CsumEmitted(1) # 65535 - SumOf(WordsOf(data, 0))

\* (x & 0xAAAA) >> 1: the clock bits of a half of the read
ClockBits(x) == And5555(x \div 2, 0)

\* C13: for every 16-bit word w, split into its even plane and its odd
\* plane as the encoder emits them, the decoder's reconstruction from the
\* 32 bits read yields w again, whatever the clock bits of the read are.
C13_DemodRoundTrip ==
    /\ pc = "p_demod" =>
          /\ Len(s.bits) = 32
          /\ \A p \in 1 .. 8 :
                /\ s.bits[2 * p] = Bit(csum, 17 - (2 * p))
                /\ s.bits[16 + (2 * p)] = Bit(csum, 16 - (2 * p))
    /\ pc = "p_done" => ntohs(raw_dat[1]) = csum

\* the mark word, and a word of mixed bits, read back with every clock bit
\* 1 and reconstructed
C13_Witness ==
    /\ pc = "p_done"
    /\ csum \in { 17545, 42330 }
    /\ ClockBits(s.word[1]) = 21845
    /\ ClockBits(s.word[2]) = 21845
    /\ ntohs(raw_dat[1]) = csum

\* a < b for two uint32_t
Lt32(a, b) == a[1] < b[1] \/ (a[1] = b[1] /\ a[2] < b[2])

\* the position in the read of the first bit of the mark word of attempt k
MarkBegan(k) == attempts[k].at - 16

\* the candidate offset of every attempt is a bit offset within the track
\* and, the index pulse lying at or before the mark word, the offset from
\* it at which the mark word began
BackdatedRight ==
    \A k \in 1 .. Len(attempts) :
        /\ Lt32(attempts[k].off, U32(th.total_bits))
        /\ media.index <= MarkBegan(k) =>
              attempts[k].off = U32(MarkBegan(k) - media.index)

\* C14: the candidate data start offset of a sync is the bit offset within
\* the track at which the mark word began, wherever the mark is recognised,
\* also with the index-relative counter below 15; it is taken when the last
\* bit of the mark has been fetched and the bits read after do not change it.
C14_Backdating ==
    Decoding =>
        /\ BackdatedRight
        /\ pc \in { "w_confirm", "w_demod", "w_check", "w_record" } =>
              idx_off = attempts[Len(attempts)].off

\* C14 without the marks that straddle the index pulse
C14_BackdatingFrom15 ==
    (Decoding /\ media.index = 0) =>
        /\ BackdatedRight
        /\ pc \in { "w_confirm", "w_demod", "w_check", "w_record" } =>
              idx_off = attempts[Len(attempts)].off

\* C15, the step part: no step of a decode clears a bit of the mask, and
\* the step of the validation loop at a sector whose checksum does not
\* match leaves the bit and the region of that sector as they were
C15_MonotonicStep ==
    Decoding =>
        /\ MaskSet(valid_blocks) \subseteq MaskSet(valid_blocks')
        /\ (pc = "w_check" /\ ~W_Matches(raw_dat, j)) =>
              /\ Bit(valid_blocks', j) = Bit(valid_blocks, j)
              /\ Region(block', j) = Region(block, j)

\* C15, the state part: the mask holds every sector that matched in any
\* attempt so far
C15_MonotonicState == Decoding => AllHits \subseteq MaskSet(valid_blocks)

\* C15: across the sync attempts of a decode the validity mask only grows;
\* a checksum mismatch of a sector in a later attempt changes neither its
\* bit nor its region of the buffer.
C15_Monotonic == [](C15_MonotonicState) /\ [][C15_MonotonicStep]_vars

\* in a second attempt the checksum of sector 1, valid from the first, has
\* just failed to match: the bit is set and the region holds the body of the
\* first attempt, not the sentinel
C15_Witness ==
    /\ pc = "w_check"
    /\ j = 2
    /\ Len(attempts) = 2
    /\ 1 \in attempts[1].hits
    /\ 1 \notin attempts[2].hits
    /\ ~W_Matches(raw_dat, 1)
    /\ Bit(valid_blocks, 1) = 1
    /\ Region(block, 1) = Region(data, 1)
    /\ Region(block, 1) # Region(SentinelBlock, 1)

\* the cells of one pass of the track
TrackCells == CellsBefore(NrSectors, 0)

\* the pass of the read in which attempt k found its mark word
PassOf(k) == ((attempts[k].at - 16 - Len(media.pre)) \div TrackCells) + 1

\* the body of sector sec as pass p of the read carries it
BodyOnPass(sec, p) ==
    LET ws == WordsOnPass(sec, media.dmg[p])
    IN  IF sec \in media.forged[p]
        THEN [ws EXCEPT ![1] = IF @ >= 32768 THEN @ - 32768 ELSE @ + 32768]
        ELSE ws

\* the attempts in which the checksum of sector sec matched
HitsOf(sec) == { k \in 1 .. Len(attempts) : sec \in attempts[k].hits }

\* C16: every valid sector of the buffer holds the body of the most recent
\* attempt in which its checksum matched, a later match overwriting the body
\* of an earlier one; an attempt whose only matches are of sectors valid
\* already still counts for the recorded offset.
C16_LastCopyWins ==
    Decoding =>
        /\ \A sec \in MaskSet(valid_blocks) :
              /\ HitsOf(sec) # {}
              /\ WordsOf(block, sec) = BodyOnPass(sec, PassOf(Last(HitsOf(sec))))
        /\ \A k \in 1 .. Len(attempts) :
              (/\ attempts[k].end = "complete"
               /\ attempts[k].hits # {}
               /\ attempts[k].hits \subseteq MaskSet(attempts[k].before)
               /\ k = Last(GoodAttempts)) => th.data_bitoff = attempts[k].off

\* sector 0 matched in two attempts with different bodies, nothing else
\* matched in the second: the buffer holds the second body and the offset
\* recorded is that of the second attempt
C16_Witness ==
    /\ Returned
    /\ ret = "block"
    /\ HitsOf(0) = { 1, 2 }
    /\ attempts[2].hits = { 0 }
    /\ BodyOnPass(0, 1) # BodyOnPass(0, 2)
    /\ WordsOf(block, 0) = BodyOnPass(0, 2)
    /\ WordsOf(block, 0) # WordsOf(data, 0)
    /\ th.data_bitoff = attempts[2].off
    /\ attempts[2].off # attempts[1].off

\* C17: when the decoder returns the no-data result the track header is
\* as it was on entry: data-bit-offset, sector size, sector count, length
\* and validity map are unchanged.
C17_HeaderUntouched ==
    (Returned /\ ret = "NULL") =>
        /\ th.data_bitoff = entry.data_bitoff
        /\ th.bytes_per_sector = entry.bytes_per_sector
        /\ th.nr_sectors = entry.nr_sectors
        /\ th.len = entry.len
        /\ th.valid_sectors = entry.valid_sectors
        /\ th = entry

\* the no-data result after a sync attempt that ran its validation loop at
\* an offset other than the header's, the header describing another format
C17_Witness ==
    /\ Returned
    /\ ret = "NULL"
    /\ Len(attempts) = 1
    /\ attempts[1].end = "complete"
    /\ attempts[1].off # entry.data_bitoff
    /\ th.nr_sectors = 11
    /\ th.data_bitoff = U32(70000)

\* read_mfm has returned
Encoded == pc = "r_ret" \/ Decoding

\* the decoder's block is released exactly when NULL is returned, and is
\* the return value otherwise
C18_DecoderNoLeak ==
    Returned =>
        /\ (blk = "freed") <=> (ret = "NULL")
        /\ (blk = "returned") <=> (ret = "block")
        /\ blk \in { "freed", "returned" }

\* C18: when either call returns, every buffer it allocated has been
\* released or is the return value; the decoder's block is released
\* exactly on the no-data result, and the encoder holds no allocation of
\* its own after it returns.
C18_NoLeak ==
    /\ C18_DecoderNoLeak
    /\ Encoded => mfm # "live"

====
